---- MODULE Spec2Model ----
(***************************************************************************)
(* Multitaper spectral estimation for point processes (dlab/pointproc.py): *)
(* coherencycpt, mtspectrumpt, mtfftpt and the transformer _mtfftpt; and   *)
(* the trial generator oeaudio_to_trials (dlab/extracellular.py).          *)
(*                                                                         *)
(* Numbers are exact.  A real is a rational [n, d] in lowest terms; a      *)
(* complex number is a finite rational combination of roots of unity       *)
(* exp(2 pi i a), kept as a function from the angle a (a rational number   *)
(* of turns, 0 <= a < 1/2) to its non-zero coefficient.  For angles whose  *)
(* denominators are powers of two this form is canonical (the roots        *)
(* exp(2 pi i j/2^n), j < 2^(n-1), are a basis of the cyclotomic field),   *)
(* so equality of values is equality of representations.  The calls are    *)
(* therefore modelled with the default pad = 0, which makes the transform  *)
(* length nfft a power of two; the transform length for the other values   *)
(* of pad is checked for every N under SpecNfft.                           *)
(* Arrays are 1-based sequences; J is indexed J[trial][freq][taper] where  *)
(* the code writes J[freq, taper, trial].                                  *)
(***************************************************************************)
EXTENDS Integers, Sequences, FiniteSets, TLC

VARIABLES pc, op, tl, kw, sig, S, fr, J1, J, Nsp, Msp, ev, done, ret, pin, pout

\* the state of oeaudio_to_trials (dlab/extracellular.py): its arguments, its
\* locals, the trials it has yielded and the start events it has read
VARIABLES data_file, sync_dset, prepad, entry_num, entry_start, expt_start,
          stim_onsets, stim_sample_offset, sampling_rate, nrows, stim,
          click_idx, stim_on, trial_on, this_trial, index, yielded, starts

oevars == <<data_file, sync_dset, prepad, entry_num, entry_start, expt_start,
            stim_onsets, stim_sample_offset, sampling_rate, nrows, stim,
            click_idx, stim_on, trial_on, this_trial, index, yielded, starts>>

vars == <<pc, op, tl, kw, sig, S, fr, J1, J, Nsp, Msp, ev, done, ret, pin, pout,
          data_file, sync_dset, prepad, entry_num, entry_start, expt_start,
          stim_onsets, stim_sample_offset, sampling_rate, nrows, stim,
          click_idx, stim_on, trial_on, this_trial, index, yielded, starts>>

\* Python's None
None == <<>>

\* no call of oeaudio_to_trials is in progress
OeIdle ==
    /\ data_file = <<>> /\ sync_dset = "None" /\ prepad = None
    /\ entry_num = -1 /\ entry_start = None /\ expt_start = None
    /\ stim_onsets = <<>> /\ stim_sample_offset = 0 /\ sampling_rate = 0
    /\ nrows = 0 /\ stim = "" /\ click_idx = 0 /\ stim_on = 0 /\ trial_on = 0
    /\ this_trial = None /\ index = 0 /\ yielded = <<>> /\ starts = <<>>

---------------------------------------------------------------------------
(* Bounds of the model *)

MaxTrials == 2
MaxEvents == 2
MaxTick == 2
MaxTapers == 2
MaxGridLen == 17
MaxPad == 4
\* oeaudio_to_trials: entries of a file, rows of the event logs of a file
\* (all entries together), the last sample a row or a click can fall on,
\* clicks detected in an entry
MaxEntries == 2
MaxRows == 4
MaxSample == 2
MaxClicks == 2

---------------------------------------------------------------------------
(* Exact rational arithmetic *)

RECURSIVE GCD(_, _)
GCD(a, b) == IF b = 0 THEN a ELSE GCD(b, a % b)

AbsInt(x) == IF x < 0 THEN -x ELSE x

Rat(n, d) ==
    LET s == IF d < 0 THEN -1 ELSE 1
        g == GCD(AbsInt(n), AbsInt(d))
    IN  [n |-> (s * n) \div g, d |-> (s * d) \div g]

RInt(i) == [n |-> i, d |-> 1]
RZero == RInt(0)
RHalf == Rat(1, 2)
RAdd(x, y) == Rat(x.n * y.d + y.n * x.d, x.d * y.d)
RNeg(x) == [n |-> -x.n, d |-> x.d]
RSub(x, y) == RAdd(x, RNeg(y))
RMul(x, y) == Rat(x.n * y.n, x.d * y.d)
RDiv(x, y) == Rat(x.n * y.d, x.d * y.n)
RLeq(x, y) == x.n * y.d <= y.n * x.d
RLt(x, y) == x.n * y.d < y.n * x.d
RFloor(x) == x.n \div x.d
RCeil(x) == -((-x.n) \div x.d)

RECURSIVE RSum(_, _)
RSum(f, D) ==
    IF D = {} THEN RZero
    ELSE LET x == CHOOSE y \in D : TRUE IN RAdd(f[x], RSum(f, D \ {x}))

RMinOf(D) == CHOOSE x \in D : \A y \in D : RLeq(x, y)
RMaxOf(D) == CHOOSE x \in D : \A y \in D : RLeq(y, x)

Range(s) == {s[i] : i \in DOMAIN s}

---------------------------------------------------------------------------
(* Exact complex arithmetic over roots of unity *)

CZero == [a \in {} |-> RZero]

\* the angle th (in turns) folded into [0, 1/2), with the sign it picks up
Fold(th) ==
    LET f == RSub(th, RInt(RFloor(th)))
    IN  IF RLt(f, RHalf) THEN [a |-> f, s |-> 1]
        ELSE [a |-> RSub(f, RHalf), s |-> -1]

\* exp(2 pi i th)
Unit(th) == LET k == Fold(th) IN [a \in {k.a} |-> RInt(k.s)]

Coef(z, a) == IF a \in DOMAIN z THEN z[a] ELSE RZero
Trim(z) == [a \in {b \in DOMAIN z : z[b] # RZero} |-> z[a]]
CAdd(z, w) ==
    Trim([a \in (DOMAIN z) \cup (DOMAIN w) |-> RAdd(Coef(z, a), Coef(w, a))])
CScale(r, z) == Trim([a \in DOMAIN z |-> RMul(r, z[a])])
CSub(z, w) == CAdd(z, CScale(RInt(-1), w))
CReal(r) == CScale(r, Unit(RZero))
CMul(z, w) ==
    LET P == (DOMAIN z) \X (DOMAIN w)
        tgt(p) == Fold(RAdd(p[1], p[2]))
        T == {tgt(p).a : p \in P}
        term == [p \in P |-> RMul(RInt(tgt(p).s), RMul(z[p[1]], w[p[2]]))]
    IN  Trim([a \in T |-> RSum(term, {p \in P : tgt(p).a = a})])
CConj(z) ==
    LET T == {Fold(RNeg(a)).a : a \in DOMAIN z}
        term == [a \in DOMAIN z |-> RMul(RInt(Fold(RNeg(a)).s), z[a])]
    IN  Trim([b \in T |-> RSum(term, {a \in DOMAIN z : Fold(RNeg(a)).a = b})])
\* real and imaginary part, each a real number of the field
CRe(z) == CScale(RHalf, CAdd(z, CConj(z)))
CIm(z) == CMul(CScale(RHalf, CSub(z, CConj(z))), Unit(Rat(3, 4)))
\* |z|^2 = Re(z)^2 + Im(z)^2
CAbsSq(z) == CAdd(CMul(CRe(z), CRe(z)), CMul(CIm(z), CIm(z)))

RECURSIVE CSumSeq(_)
CSumSeq(s) == IF s = <<>> THEN CZero ELSE CAdd(Head(s), CSumSeq(Tail(s)))
\* the mean of a non-empty sequence of complex numbers
CMean(s) == CScale(Rat(1, Len(s)), CSumSeq(s))

---------------------------------------------------------------------------
(* Transform length *)

RECURSIVE Pow2(_)
Pow2(e) == IF e <= 0 THEN 1 ELSE 2 * Pow2(e - 1)

\* 2**e as Python computes it: a fraction when e is negative
Pow2R(e) == IF e >= 0 THEN RInt(Pow2(e)) ELSE Rat(1, Pow2(-e))

RECURSIVE NextPow2From(_, _)
NextPow2From(n, p) == IF Pow2(p) >= n THEN p ELSE NextPow2From(n, p + 1)

\* datautils.nextpow2: ceil(log2(n)), the least P with 2^P >= n
nextpow2(n) == NextPow2From(n, 0)

\* a plausible slip: the power of two taken without the max with N
NfftNoMax(N, pad) == Pow2(nextpow2(N) + pad)

\* nfft = max(2**(nextpow2(N)+pad), N)
Nfft(N, pad) ==
    LET p == Pow2R(nextpow2(N) + pad)
    IN  IF RLeq(RInt(N), p) /\ p.d = 1 THEN p.n ELSE N

RECURSIVE IsPow2(_)
IsPow2(n) == n = 1 \/ (n > 1 /\ n % 2 = 0 /\ IsPow2(n \div 2))

\* coherencycpt, line 78: the same expression, for the rows N of the signal
NfftCoherency(N, pad) ==
    LET p == Pow2R(nextpow2(N) + pad)
    IN  IF RLeq(RInt(N), p) /\ p.d = 1 THEN p.n ELSE N

---------------------------------------------------------------------------
(* Grids, tapers and the continuous-signal transform *)

\* numpy.arange(start, stop, step), in exact arithmetic
arange(start, stop, step) ==
    LET n == RCeil(RDiv(RSub(stop, start), step))
    IN  [i \in 1..(IF n > 0 THEN n ELSE 0) |->
            RAdd(start, RMul(RInt(i - 1), step))]

\* the integers of a finite set in increasing order
SortedSeq(D) ==
    [i \in 1..Cardinality(D) |->
        CHOOSE x \in D : Cardinality({y \in D : y < x}) = i - 1]

AllEvents(c) == UNION {Range(c[i]) : i \in DOMAIN c}

\* toelis range: (min over all sequences, max over all sequences)
TlRange(c) == <<RMinOf(AllEvents(c)), RMaxOf(AllEvents(c))>>

\* toelis nrepeats: the number of trials
nrepeats(c) == Len(c)

\* kwargs.get('fpass', (0, Fs/2.))
Fpass(k) == IF k.fpass = <<>> THEN <<RZero, Rat(k.Fs, 2)>> ELSE k.fpass

\* signalproc.getfgrid: the nfft/2+1 bins at spacing Fs/nfft that lie in the
\* pass band, and their indices (0-based) into the transform
getfgrid(Fs, nfft, fpass) ==
    LET bin(j) == Rat(Fs * j, nfft)
        keep == {j \in 0..(nfft \div 2) :
                    RLeq(fpass[1], bin(j)) /\ RLeq(bin(j), fpass[2])}
        findx == SortedSeq(keep)
    IN  [f |-> [i \in DOMAIN findx |-> bin(findx[i])], findx |-> findx]

\* signalproc.dpsschk: K tapers of length N, the same for the same (N, K).
\* The values stand in for the Slepian sequences: an even bump, an odd
\* ramp, and so on, as integers.
dpsschk(N, K) ==
    [n \in 1..N |-> [k \in 1..K |->
        RInt(IF k % 2 = 1
             THEN ((k + 1) \div 2) * (IF n <= N + 1 - n THEN n ELSE N + 1 - n)
             ELSE (k \div 2) * (2 * n - (N + 1)))]]

\* scipy.fftpack.fft(tapers, nfft, axis=0)[findx, :]
TaperSpectrum(tapers, nfft, findx) ==
    LET N == IF Len(tapers) <= nfft THEN Len(tapers) ELSE nfft
        K == Len(tapers[1])
    IN  [i \in DOMAIN findx |-> [k \in 1..K |->
            CSumSeq([n \in 1..N |->
                CScale(tapers[n][k], Unit(Rat(-(findx[i] * (n - 1)), nfft)))])]]

\* signalproc.mtfft: the tapered transform of each channel of the signal,
\* at the bins of the frequency grid; J1[c][f][k]
mtfft(Sig, tapers, nfft, findx) ==
    LET N == Len(Sig)
        K == Len(tapers[1])
    IN  [c \in 1..Len(Sig[1]) |-> [i \in DOMAIN findx |-> [k \in 1..K |->
            CSumSeq([n \in 1..N |->
                CScale(RMul(Sig[n][c], tapers[n][k]),
                       Unit(Rat(-(findx[i] * (n - 1)), nfft)))])]]]

\* a mutant: the grid of a pair of endpoints stopped at the upper endpoint
MtfftptGridShort(c, k) ==
    LET t == IF k.tgrid = <<>> THEN TlRange(c) ELSE k.tgrid
        dt == Rat(1, k.Fs)
    IN  IF Len(t) = 2
        THEN arange(RSub(t[1], dt), t[2], dt)
        ELSE t

\* t = kwargs.get('tgrid', tl.range); a pair is taken for endpoints
MtfftptGrid(c, k) ==
    LET t == IF k.tgrid = <<>> THEN TlRange(c) ELSE k.tgrid
        dt == Rat(1, k.Fs)
    IN  IF Len(t) = 2
        THEN arange(RSub(t[1], dt), RAdd(t[2], RMul(RInt(2), dt)), dt)
        ELSE t

\* coherencycpt: the tgrid option as given, else the support of the signal
CoherencyGrid(N, k) ==
    LET dt == Rat(1, k.Fs)
    IN  IF k.tgrid # <<>> THEN k.tgrid
        ELSE arange(RZero, RMul(RInt(N), dt), dt)

---------------------------------------------------------------------------
(* The transformer _mtfftpt *)

\* a mutant: the size check switched off
SizesUnchecked(f, findx) == TRUE

\* assert nfreq == findx.size
SizesConsistent(f, findx) == Len(f) = Len(findx)

\* events[(events >= t.min()) & (events <= t.max())]
\* a mutant: the upper bound exclusive
InRangeHalfOpen(events, t) ==
    SelectSeq(events, LAMBDA e :
        RLeq(RMinOf(Range(t)), e) /\ RLt(e, RMaxOf(Range(t))))

InRange(events, t) ==
    SelectSeq(events, LAMBDA e :
        RLeq(RMinOf(Range(t)), e) /\ RLeq(e, RMaxOf(Range(t))))

\* scipy interp1d(t, y) at x, linear, for t increasing and x within it
Interp(t, y, x) ==
    LET first == CHOOSE i \in 1..Len(t) :
                    /\ RLeq(x, t[i])
                    /\ \A j \in 1..(i - 1) : RLt(t[j], x)
        hi == IF first = 1 THEN 2 ELSE first
        lo == hi - 1
        slope == RDiv(RSub(y[hi], y[lo]), RSub(t[hi], t[lo]))
    IN  RAdd(RMul(slope, RSub(x, t[lo])), y[lo])

\* gemm(Y, data_proj, trans_b=1) - H * Msp, for the events kept of one trial
Column(kept, msp, tapers, t, f, H) ==
    LET K == Len(tapers[1])
        proj(k, e) == Interp(t, [n \in 1..Len(tapers) |-> tapers[n][k]], kept[e])
        Y(i, e) == Unit(RNeg(RMul(f[i], RSub(kept[e], t[1]))))
        h(i, k) == IF i \in DOMAIN H THEN H[i][k] ELSE CZero
    IN  [i \in DOMAIN f |-> [k \in 1..K |->
            CSub(CSumSeq([e \in 1..Len(kept) |-> CScale(proj(k, e), Y(i, e))]),
                 CScale(msp, h(i, k)))]]

\* a mutant: the column of an empty trial set to one instead of zero
OnesColumn(nfreq, K) == [i \in 1..nfreq |-> [k \in 1..K |-> CReal(RInt(1))]]

\* J[:,:,chan] = 0
ZeroColumn(nfreq, K) == [i \in 1..nfreq |-> [k \in 1..K |-> CZero]]

\* what one pass of the loop computes from the events of one trial
TrialResult(events, frm) ==
    LET kept == InRange(events, frm.t)
        msp == Rat(Len(kept), Len(frm.t))
    IN  [Nsp |-> Len(kept), Msp |-> msp, ev |-> kept,
         J |-> IF Len(kept) > 0
               THEN Column(kept, msp, frm.tapers, frm.t, frm.f, frm.H)
               ELSE ZeroColumn(Len(frm.f), Len(frm.tapers[1]))]

\* a mutant: the spike count accumulates over the trials already processed
LoopBodyCarry(arr, chan, events, frm) ==
    LET r == TrialResult(events, frm)
        n == r.Nsp + (IF chan > 1 THEN arr.Nsp[chan - 1] ELSE 0)
    IN  [J |-> [arr.J EXCEPT ![chan] = r.J],
         Nsp |-> [arr.Nsp EXCEPT ![chan] = n],
         Msp |-> [arr.Msp EXCEPT ![chan] = Rat(n, Len(frm.t))]]

\* one pass of the loop: the arrays after trial chan has been processed
LoopBody(arr, chan, events, frm) ==
    LET r == TrialResult(events, frm)
    IN  [J |-> [arr.J EXCEPT ![chan] = r.J],
         Nsp |-> [arr.Nsp EXCEPT ![chan] = r.Nsp],
         Msp |-> [arr.Msp EXCEPT ![chan] = r.Msp]]

\* the frame of _mtfftpt before its loop: H, w (kept as f), and the grid
Frame(tapers, nfft, t, f, findx) ==
    [tapers |-> tapers, nfft |-> nfft, t |-> t, f |-> f, findx |-> findx,
     H |-> TaperSpectrum(tapers, nfft, findx)]

NoFrame == [tapers |-> <<>>, nfft |-> 0, t |-> <<>>, f |-> <<>>,
            findx |-> <<>>, H |-> <<>>]

---------------------------------------------------------------------------
(* Arrays with a shape: [ndim, v], v nested by axis *)

Scalar(x) == [ndim |-> 0, v |-> x]
Vector(s) == [ndim |-> 1, v |-> s]
Matrix(m) == [ndim |-> 2, v |-> m]

\* numpy.squeeze of an (nfreq x C) array held as v[i][c]
Squeeze(m, nfreq, C) ==
    IF nfreq = 1 /\ C = 1 THEN Scalar(m[1][1])
    ELSE IF C = 1 THEN Vector([i \in 1..nfreq |-> m[i][1]])
    ELSE IF nfreq = 1 THEN Vector(m[1])
    ELSE Matrix(m)

\* S1 * S2, elementwise, for two arrays of the same shape
ArrMul(a, b) ==
    IF a.ndim = 0 THEN Scalar(CMul(a.v, b.v))
    ELSE IF a.ndim = 1 THEN Vector([i \in DOMAIN a.v |-> CMul(a.v[i], b.v[i])])
    ELSE Matrix([i \in DOMAIN a.v |->
                    [c \in DOMAIN a.v[i] |-> CMul(a.v[i][c], b.v[i][c])]])

\* x / sqrt(r), kept as the pair: the root is not taken
Quot(x, r) == [num |-> x, rad |-> r]

\* S12 / nx.sqrt(r), elementwise, for two arrays of the same shape
ArrQuot(a, b) ==
    IF a.ndim = 0 THEN Scalar(Quot(a.v, b.v))
    ELSE IF a.ndim = 1 THEN Vector([i \in DOMAIN a.v |-> Quot(a.v[i], b.v[i])])
    ELSE Matrix([i \in DOMAIN a.v |->
                    [c \in DOMAIN a.v[i] |-> Quot(a.v[i][c], b.v[i][c])]])

\* a.mean(1) of a two-dimensional array
MeanAxis1(a) == Vector([i \in DOMAIN a.v |-> CMean(a.v[i])])

RECURSIVE RSumSeq(_)
RSumSeq(s) == IF s = <<>> THEN RZero ELSE RAdd(Head(s), RSumSeq(Tail(s)))
RMean(s) == RDiv(RSumSeq(s), RInt(Len(s)))

---------------------------------------------------------------------------
(* mtspectrumpt and coherencycpt after the transformer has returned *)

\* a mutant: the conjugate forgotten
TaperPowerNoConj(Jv) ==
    [i \in DOMAIN Jv[1] |-> [c \in DOMAIN Jv |->
        CMean([k \in DOMAIN Jv[c][i] |->
            CRe(CMul(Jv[c][i][k], Jv[c][i][k]))])]]

\* nx.mean(nx.real(J.conj() * J), 1), as S[i][c]
TaperPower(Jv) ==
    [i \in DOMAIN Jv[1] |-> [c \in DOMAIN Jv |->
        CMean([k \in DOMAIN Jv[c][i] |->
            CRe(CMul(CConj(Jv[c][i][k]), Jv[c][i][k]))])]]

\* nx.mean(A.conj() * B, 1), as S[i][c]
TaperCross(A, B) ==
    [i \in DOMAIN A[1] |-> [c \in DOMAIN A |->
        CMean([k \in DOMAIN A[c][i] |-> CMul(CConj(A[c][i][k]), B[c][i][k])])]]

\* a mutant: the rate averaged over trials whatever trialave says
SpectrumMeanRate(Jv, Mspv, f, k) ==
    LET P == TaperPower(Jv)
    IN  [S |-> IF k.trialave THEN MeanAxis1(Matrix(P)) ELSE Matrix(P),
         f |-> f,
         R |-> Scalar(RMul(RMean(Mspv), RInt(k.Fs)))]

\* mtspectrumpt, lines 141-148: (S, f, R) from what mtfftpt returned
Spectrum(Jv, Mspv, f, k) ==
    LET P == TaperPower(Jv)
    IN  [S |-> IF k.trialave THEN MeanAxis1(Matrix(P)) ELSE Matrix(P),
         f |-> f,
         R |-> IF k.trialave THEN Scalar(RMul(RMean(Mspv), RInt(k.Fs)))
               ELSE Vector([c \in DOMAIN Mspv |-> RMul(Mspv[c], RInt(k.Fs))])]

\* a mutant: the coherency formed per trial and averaged afterwards
CoherencyAverageAfter(A, B, f, k) ==
    LET nfreq == Len(f)
        C == Len(A)
        S12 == Squeeze(TaperCross(A, B), nfreq, C)
        S1 == Squeeze(TaperCross(A, A), nfreq, C)
        S2 == Squeeze(TaperCross(B, B), nfreq, C)
        per == ArrQuot(S12, ArrMul(S1, S2))
    IN  IF k.trialave /\ S12.ndim < 2
        THEN [error |-> "ValueError", msg |-> "axis out of bounds"]
        ELSE [error |-> "", f |-> f,
              S12 |-> IF k.trialave THEN MeanAxis1(S12) ELSE S12,
              S1 |-> IF k.trialave THEN MeanAxis1(S1) ELSE S1,
              S2 |-> IF k.trialave THEN MeanAxis1(S2) ELSE S2,
              C12 |-> IF k.trialave
                      THEN Vector([i \in DOMAIN per.v |-> [meanof |-> per.v[i]]])
                      ELSE per]

\* coherencycpt, lines 86-98.  C = |C12| and phi = angle(C12) are functions
\* of C12 alone and are returned as C12.
Coherency(A, B, f, k) ==
    LET nfreq == Len(f)
        C == Len(A)
        S12 == Squeeze(TaperCross(A, B), nfreq, C)
        S1 == Squeeze(TaperCross(A, A), nfreq, C)
        S2 == Squeeze(TaperCross(B, B), nfreq, C)
        a12 == IF k.trialave THEN MeanAxis1(S12) ELSE S12
        a1 == IF k.trialave THEN MeanAxis1(S1) ELSE S1
        a2 == IF k.trialave THEN MeanAxis1(S2) ELSE S2
    IN  IF k.trialave /\ S12.ndim < 2
        THEN [error |-> "ValueError", msg |-> "axis out of bounds"]
        ELSE [error |-> "", f |-> f, S12 |-> a12, S1 |-> a1, S2 |-> a2,
              C12 |-> ArrQuot(a12, ArrMul(a1, a2))]

\* a mutant: a signal with more channels than trials cut down to fit
MatchTrialsTruncate(Sig, n) ==
    LET C == Len(Sig[1])
    IN  IF C = n THEN [error |-> "", S |-> Sig]
        ELSE IF C = 1 \/ C > n
        THEN [error |-> "", S |-> [r \in DOMAIN Sig |-> [c \in 1..n |->
                                    Sig[r][IF C = 1 THEN 1 ELSE c]]]]
        ELSE [error |-> "ValueError", S |-> Sig]

\* coherencycpt, lines 61-68: the signal matched to the number of trials
MatchTrials(Sig, n) ==
    LET C == Len(Sig[1])
    IN  IF C # n
        THEN IF C = 1
             THEN [error |-> "", S |-> [r \in DOMAIN Sig |-> [c \in 1..n |-> Sig[r][1]]]]
             ELSE [error |-> "ValueError", S |-> Sig]
        ELSE [error |-> "", S |-> Sig]

\* coherencycpt, lines 58-59: a one-dimensional signal becomes one column
AsColumns(x) == IF x.ndim = 1 THEN [r \in DOMAIN x.v |-> <<x.v[r]>>] ELSE x.v

---------------------------------------------------------------------------
(* Inputs *)

\* event times: multiples of half a second
EventTimes == {Rat(j, 2) : j \in 0..MaxTick}

RECURSIVE TotalLen(_)
TotalLen(c) == IF c = <<>> THEN 0 ELSE Len(Head(c)) + TotalLen(Tail(c))

\* collections of 1..MaxTrials trials holding at most MaxEvents events in
\* all, in any order and with repeats
Collections ==
    {c \in UNION {[1..C -> UNION {[1..m -> EventTimes] : m \in 0..MaxEvents}] :
                    C \in 1..MaxTrials} : TotalLen(c) <= MaxEvents}

FsChoices == {1, 2}

\* the tgrid option: absent, a pair of endpoints, or four points 1/Fs apart
TgridChoices(Fs) ==
    {<<>>, <<Rat(3, 2), RInt(2)>>,
     arange(Rat(-2, Fs), Rat(2, Fs), Rat(1, Fs))}

\* the fpass option: absent, or the upper half of the band
FpassChoices(Fs) == {<<>>, <<Rat(Fs, 4), Rat(Fs, 2)>>}

Kwargs ==
    UNION {[Fs : {F}, pad : {0}, fpass : FpassChoices(F),
            tgrid : TgridChoices(F), tapers : 1..MaxTapers,
            trialave : BOOLEAN] : F \in FsChoices}

\* continuous signals: N samples in one dimension, or N x C
SignalLens == {2, 4}
SigVal(n, c) == RInt(((n * (c + 1)) % 3) - 1)
Signals ==
    {Vector([n \in 1..N |-> SigVal(n, 1)]) : N \in SignalLens}
    \cup {Matrix([n \in 1..N |-> [c \in 1..C |-> SigVal(n, c)]]) :
            N \in SignalLens, C \in 1..MaxTrials}

---------------------------------------------------------------------------
(* The calls *)

Init ==
    /\ tl \in Collections
    /\ kw \in Kwargs
    /\ pc = "idle" /\ op = "none"
    /\ sig = <<>> /\ S = <<>> /\ fr = NoFrame /\ J1 = <<>>
    /\ J = <<>> /\ Nsp = <<>> /\ Msp = <<>> /\ ev = <<>> /\ done = {}
    /\ ret = <<>> /\ pin = <<>> /\ pout = <<>>
    /\ OeIdle

\* mtfftpt, lines 182-195: the arguments it hands to the transformer
MtfftptArgs(c, k) ==
    LET t == MtfftptGrid(c, k)
        N == Len(t)
        nfft == Nfft(N, k.pad)
        g == getfgrid(k.Fs, nfft, Fpass(k))
    IN  [tapers |-> dpsschk(N, k.tapers), nfft |-> nfft, t |-> t,
         f |-> g.f, findx |-> g.findx]

\* coherencycpt, lines 71-80, for a signal of N samples
CoherencyArgs(N, k) ==
    LET nfft == NfftCoherency(N, k.pad)
        g == getfgrid(k.Fs, nfft, Fpass(k))
    IN  [tapers |-> dpsschk(N, k.tapers), nfft |-> nfft,
         t |-> CoherencyGrid(N, k), f |-> g.f, findx |-> g.findx]

Zeros(C, nfreq, K) ==
    [J |-> [c \in 1..C |-> ZeroColumn(nfreq, K)],
     Nsp |-> [c \in 1..C |-> 0],
     Msp |-> [c \in 1..C |-> RZero]]

\* _mtfftpt, lines 221-235: up to the loop
EnterTransformer(a) ==
    IF ~SizesConsistent(a.f, a.findx)
    THEN /\ pc' = "error"
         /\ ret' = [error |-> "AssertionError",
                    msg |-> "Frequency information inconsistent sizes"]
         /\ fr' = [NoFrame EXCEPT !.tapers = a.tapers, !.nfft = a.nfft,
                                  !.t = a.t, !.f = a.f, !.findx = a.findx]
         /\ UNCHANGED <<J, Nsp, Msp, ev, done>>
    ELSE LET z == Zeros(Len(tl), Len(a.f), Len(a.tapers[1]))
         IN  /\ fr' = Frame(a.tapers, a.nfft, a.t, a.f, a.findx)
             /\ J' = z.J /\ Nsp' = z.Nsp /\ Msp' = z.Msp
             /\ UNCHANGED <<ev, done>>
             /\ IF Len(a.t) # Len(a.tapers)
                THEN /\ pc' = "error"
                     /\ ret' = [error |-> "ValueError",
                                msg |-> "x and y arrays must be equal in length"]
                ELSE /\ pc' = "loop"
                     /\ UNCHANGED ret

\* the default grid needs the range of the events
CanGrid == kw.tgrid # <<>> \/ AllEvents(tl) # {}

CallMtfftpt ==
    /\ pc = "idle" /\ CanGrid
    /\ op' = "mtfftpt"
    /\ EnterTransformer(MtfftptArgs(tl, kw))
    /\ UNCHANGED <<tl, kw, sig, S, J1, pin, pout>>
    /\ UNCHANGED oevars

CallMtspectrumpt ==
    /\ pc = "idle" /\ CanGrid
    /\ op' = "mtspectrumpt"
    /\ EnterTransformer(MtfftptArgs(tl, kw))
    /\ UNCHANGED <<tl, kw, sig, S, J1, pin, pout>>
    /\ UNCHANGED oevars

\* _mtfftpt called by itself, with f and findx as the caller built them
CallTransformer ==
    /\ pc = "idle" /\ CanGrid
    /\ op' = "_mtfftpt"
    /\ \E cut \in {"none", "f", "findx"} :
        LET a == MtfftptArgs(tl, kw)
            short(q) == SubSeq(q, 1, Len(q) - 1)
        IN  /\ cut # "none" => Len(a.f) > 0
            /\ EnterTransformer(
                 [a EXCEPT !.f = IF cut = "f" THEN short(@) ELSE @,
                           !.findx = IF cut = "findx" THEN short(@) ELSE @])
    /\ UNCHANGED <<tl, kw, sig, S, J1, pin, pout>>
    /\ UNCHANGED oevars

CallCoherencycpt ==
    /\ pc = "idle"
    /\ op' = "coherencycpt"
    /\ \E x \in Signals :
        LET cols == AsColumns(x)
            m == MatchTrials(cols, nrepeats(tl))
            a == CoherencyArgs(Len(cols), kw)
        IN  /\ sig' = x
            /\ S' = m.S
            /\ IF m.error # ""
               THEN /\ pc' = "error"
                    /\ ret' = [error |-> m.error,
                               msg |-> "Trial dimensions of data do not match"]
                    /\ UNCHANGED <<fr, J1, J, Nsp, Msp, ev, done>>
               ELSE /\ J1' = mtfft(m.S, a.tapers, a.nfft, a.findx)
                    /\ EnterTransformer(a)
    /\ UNCHANGED <<tl, kw, pin, pout>>
    /\ UNCHANGED oevars

\* one pass of "for events in tl", for the trial at position chan
TrialStep(chan) ==
    /\ pc = "loop"
    /\ chan \in (1..Len(tl)) \ done
    /\ LET arr == LoopBody([J |-> J, Nsp |-> Nsp, Msp |-> Msp], chan, tl[chan], fr)
       IN  /\ J' = arr.J /\ Nsp' = arr.Nsp /\ Msp' = arr.Msp
    /\ ev' = TrialResult(tl[chan], fr).ev
    /\ done' = done \cup {chan}
    /\ UNCHANGED <<pc, op, tl, kw, sig, S, fr, J1, ret, pin, pout>>
    /\ UNCHANGED oevars

\* the loop as written: trials in order
NextTrial == TrialStep(Cardinality(done) + 1)

\* the loop with its passes in any order
AnyTrial == \E chan \in 1..Len(tl) : TrialStep(chan)

LoopOver == pc = "loop" /\ done = 1..Len(tl)

ReturnTransformer ==
    /\ LoopOver /\ op = "_mtfftpt"
    /\ ret' = [J |-> J, Msp |-> Msp, Nsp |-> Nsp]
    /\ pc' = "done"
    /\ UNCHANGED <<op, tl, kw, sig, S, fr, J1, J, Nsp, Msp, ev, done, pin, pout>>
    /\ UNCHANGED oevars

ReturnMtfftpt ==
    /\ LoopOver /\ op = "mtfftpt"
    /\ ret' = [J |-> J, Msp |-> Msp, Nsp |-> Nsp, f |-> fr.f]
    /\ pc' = "done"
    /\ UNCHANGED <<op, tl, kw, sig, S, fr, J1, J, Nsp, Msp, ev, done, pin, pout>>
    /\ UNCHANGED oevars

ReturnMtspectrumpt ==
    /\ LoopOver /\ op = "mtspectrumpt"
    /\ ret' = Spectrum(J, Msp, fr.f, kw)
    /\ pc' = "done"
    /\ UNCHANGED <<op, tl, kw, sig, S, fr, J1, J, Nsp, Msp, ev, done, pin, pout>>
    /\ UNCHANGED oevars

ReturnCoherencycpt ==
    /\ LoopOver /\ op = "coherencycpt"
    /\ LET r == Coherency(J1, J, fr.f, kw)
       IN  /\ ret' = r
           /\ pc' = IF r.error # "" THEN "error" ELSE "done"
    /\ UNCHANGED <<op, tl, kw, sig, S, fr, J1, J, Nsp, Msp, ev, done, pin, pout>>
    /\ UNCHANGED oevars

Next ==
    \/ CallMtfftpt
    \/ CallMtspectrumpt
    \/ CallTransformer
    \/ CallCoherencycpt
    \/ NextTrial
    \/ ReturnTransformer
    \/ ReturnMtfftpt
    \/ ReturnMtspectrumpt
    \/ ReturnCoherencycpt

Spec == Init /\ [][Next]_vars

\* the loop run over the trials in order, from trial chan on
RECURSIVE SeqLoop(_, _, _, _)
SeqLoop(arr, chan, c, frm) ==
    IF chan > Len(c) THEN arr
    ELSE SeqLoop(LoopBody(arr, chan, c[chan], frm), chan + 1, c, frm)

\* mtfftpt as a function of its inputs: (J, Msp, Nsp, f)
mtfftpt(c, k) ==
    LET a == MtfftptArgs(c, k)
        frm == Frame(a.tapers, a.nfft, a.t, a.f, a.findx)
        r == SeqLoop(Zeros(Len(c), Len(a.f), Len(a.tapers[1])), 1, c, frm)
    IN  [J |-> r.J, Msp |-> r.Msp, Nsp |-> r.Nsp, f |-> a.f]

---------------------------------------------------------------------------
(* The loop of the transformer with its passes in any order *)

NextPar ==
    \/ CallMtfftpt
    \/ AnyTrial
    \/ ReturnMtfftpt

SpecPar == Init /\ [][NextPar]_vars

---------------------------------------------------------------------------
(* The transform length as a function of N and pad *)

InitNfft ==
    /\ pin \in [N : 1..MaxGridLen, pad : -1..MaxPad]
    /\ pout = <<>>
    /\ pc = "nfft" /\ op = "none" /\ tl = <<>> /\ kw = <<>>
    /\ sig = <<>> /\ S = <<>> /\ fr = NoFrame /\ J1 = <<>>
    /\ J = <<>> /\ Nsp = <<>> /\ Msp = <<>> /\ ev = <<>> /\ done = {}
    /\ ret = <<>>
    /\ OeIdle

NfftInMtfftpt ==
    /\ pc = "nfft" /\ pout = <<>>
    /\ pout' = [site |-> "mtfftpt", nfft |-> Nfft(pin.N, pin.pad)]
    /\ UNCHANGED <<pc, op, tl, kw, sig, S, fr, J1, J, Nsp, Msp, ev, done, ret, pin>>
    /\ UNCHANGED oevars

NfftInCoherencycpt ==
    /\ pc = "nfft" /\ pout = <<>>
    /\ pout' = [site |-> "coherencycpt", nfft |-> NfftCoherency(pin.N, pin.pad)]
    /\ UNCHANGED <<pc, op, tl, kw, sig, S, fr, J1, J, Nsp, Msp, ev, done, ret, pin>>
    /\ UNCHANGED oevars

NextNfft == NfftInMtfftpt \/ NfftInCoherencycpt

SpecNfft == InitNfft /\ [][NextNfft]_vars

---------------------------------------------------------------------------
(* oeaudio_to_trials (dlab/extracellular.py): the generator that breaks the *)
(* entries of a recording into trials.  The file is read as the generator  *)
(* runs: the attributes of an entry when the entry is opened, a row of its *)
(* event log at each pass of the inner loop.  Log messages are not state.  *)

\* int(x): the integer part, toward zero
IntOf(x) == IF x.n >= 0 THEN x.n \div x.d ELSE -((-x.n) \div x.d)

\* numpy searchsorted(a, v) for increasing a, side 'left': the 0-based
\* position of the first element that is >= v, len(a) when there is none
searchsorted(a, v) == Cardinality({i \in DOMAIN a : a[i] < v})

\* sorted(data_file.values(), key=entry_time): stable, by timestamp
SortedEntries(df) ==
    LET before(i, j) ==
            \/ RLt(df[i].timestamp, df[j].timestamp)
            \/ (df[i].timestamp = df[j].timestamp /\ i < j)
    IN  [k \in 1..Len(df) |->
            df[CHOOSE i \in DOMAIN df :
                    Cardinality({j \in DOMAIN df : before(j, i)}) = k - 1]]

\* a message is its first word and the rest of the line; a path is its
\* directory, the stem of its file name and the extension
Path(dir, stem, ext) == [dir |-> dir, stem |-> stem, ext |-> ext]
Message(verb, rest) == [verb |-> verb, rest |-> rest]

\* re.compile(r"start (.*)").match(message): the group, or None
re_start(message) == IF message.verb = "start" THEN <<message.rest>> ELSE None

\* re.compile(r"stop (.*)").match(message): the group, or None
re_stop(message) == IF message.verb = "stop" THEN <<message.rest>> ELSE None

\* os.path.splitext(os.path.basename(path))[0]
parse_stim_id(path) == path.stem

\* stim_sample_offset = int(dset_offset * sampling_rate)
SampleOffset(dset_offset, rate) == IntOf(RMul(dset_offset, RInt(rate)))

\* trial_on = stim_on - int(prepad * sampling_rate)
TrialOn(onset, pad, rate) == onset - IntOf(RMul(pad, RInt(rate)))

\* pproc_base, copied for each trial
PprocBase(num) == [events |-> <<>>, recording |-> [entry |-> num]]

\* a mutant: the trial counter advanced at every start event
IndexAlwaysNext(idx, trial) == idx + 1

\* lines 232-234: the trial counter advances when a trial is yielded
IndexAfterStart(idx, trial) == IF trial # None THEN idx + 1 ELSE idx

\* line 233: this_trial["recording"]["stop"] = trial_on
Closed(trial, start) ==
    [trial EXCEPT !.recording =
        [entry |-> @.entry, start |-> @.start, stop |-> start]]

\* lines 242-248: this_trial.update(...); recording.start = trial_on
Updated(trial, id, idx, e_start, x_start, onset, start, rate) ==
    [events |-> trial.events,
     recording |-> [entry |-> trial.recording.entry, start |-> start],
     stim |-> id,
     index |-> idx,
     offset |-> RAdd(RSub(e_start, x_start), Rat(start, rate)),
     stim_on |-> Rat(onset - start, rate)]

\* the state of the spectral estimators, which the generator leaves alone
ppvars == <<tl, kw, sig, S, fr, J1, J, Nsp, Msp, ev, done, pin, pout>>

Timestamps == {RInt(j) : j \in 0..(MaxEntries - 1)}

\* files of 0..MaxEntries entries recorded at different times, in the order
\* the file holds them, which need not be the order of time
DataFiles ==
    UNION {{[i \in 1..n |-> [name |-> i, timestamp |-> ts[i]]] :
                ts \in {q \in [1..n -> Timestamps] :
                            \A i, j \in 1..n : q[i] = q[j] => i = j}} :
            n \in 0..MaxEntries}

SyncChoices == {"None", "sync"}
PrepadChoices == {RZero, Rat(3, 4)}
SamplingRates == {2}
OffsetChoices == {RZero, Rat(3, 4)}

\* what the click detector returns: up to MaxClicks sample numbers, increasing
ClickTrains ==
    {c \in UNION {[1..m -> 0..MaxSample] : m \in 0..MaxClicks} :
        \A i \in 1..(Len(c) - 1) : c[i] < c[i + 1]}

Paths == {Path("/stims", "a", ".wav"), Path("", "b", "")}

Messages ==
    {Message("start", q) : q \in Paths}
    \cup {Message("stop", q) : q \in Paths}
    \cup {Message("metadata:", Path("", "{}", ""))}

\* lines 175-179: the generator before its first entry
InitOe ==
    /\ data_file \in DataFiles
    /\ sync_dset \in SyncChoices
    /\ prepad \in PrepadChoices
    /\ pc = "entries" /\ op = "oeaudio_to_trials" /\ ret = <<>>
    /\ entry_num = -1 /\ entry_start = None /\ expt_start = None
    /\ stim_onsets = <<>> /\ stim_sample_offset = 0 /\ sampling_rate = 0
    /\ nrows = 0 /\ stim = "" /\ click_idx = 0 /\ stim_on = 0 /\ trial_on = 0
    /\ this_trial = None /\ index = 0 /\ yielded = <<>> /\ starts = <<>>
    /\ tl = <<>> /\ kw = <<>> /\ sig = <<>> /\ S = <<>> /\ fr = NoFrame
    /\ J1 = <<>> /\ J = <<>> /\ Nsp = <<>> /\ Msp = <<>> /\ ev = <<>>
    /\ done = {} /\ pin = <<>> /\ pout = <<>>

\* lines 180-214: the next entry in order of time, its clicks and its offset
NextEntry ==
    /\ pc = "entries" /\ entry_num + 1 < Len(data_file)
    /\ \E clicks \in ClickTrains, dset_offset \in OffsetChoices,
          rate \in SamplingRates :
        /\ (sync_dset = "None") => clicks = <<>>
        /\ entry_num' = entry_num + 1
        /\ entry_start' = SortedEntries(data_file)[entry_num + 2].timestamp
        /\ expt_start' = IF expt_start = None THEN entry_start' ELSE expt_start
        /\ stim_onsets' = clicks
        /\ sampling_rate' = rate
        /\ stim_sample_offset' = SampleOffset(dset_offset, rate)
    /\ this_trial' = None
    /\ pc' = "rows"
    /\ UNCHANGED <<op, ret, data_file, sync_dset, prepad, nrows, stim,
                   click_idx, stim_on, trial_on, index, yielded, starts>>
    /\ UNCHANGED ppvars

\* lines 236-256: the trial of the start event at hand, or the ValueError
BeginTrial(id, idx, onset, start) ==
    IF start < 0
    THEN /\ this_trial' = PprocBase(entry_num)
         /\ pc' = "error"
         /\ ret' = [error |-> "ValueError", index |-> idx, trial_on |-> start]
    ELSE /\ this_trial' = Updated(PprocBase(entry_num), id, idx, entry_start,
                                  expt_start, onset, start, sampling_rate)
         /\ pc' = "rows"
         /\ UNCHANGED ret

\* lines 219-235: a start event, up to the yield of the trial before it
StartEvent(time, path) ==
    LET id == parse_stim_id(path)
        on0 == time - stim_sample_offset
        idx == searchsorted(stim_onsets, on0)
        sync == sync_dset # "None"
    IN  /\ stim' = id
        /\ click_idx' = IF sync THEN idx ELSE click_idx
        /\ IF sync /\ idx >= Len(stim_onsets)
           THEN /\ pc' = "error"
                /\ ret' = [error |-> "IndexError", index |-> idx,
                           trial_on |-> 0]
                /\ stim_on' = on0
                /\ starts' = Append(starts, [entry |-> entry_num, stim |-> id,
                                             time |-> time, trial_on |-> None])
                /\ UNCHANGED <<trial_on, this_trial, index, yielded>>
           ELSE LET onset == IF sync THEN stim_onsets[idx + 1] ELSE on0
                    start == TrialOn(onset, prepad, sampling_rate)
                    idx1 == IndexAfterStart(index, this_trial)
                IN  /\ stim_on' = onset
                    /\ trial_on' = start
                    /\ starts' = Append(starts,
                            [entry |-> entry_num, stim |-> id, time |-> time,
                             trial_on |-> <<start>>])
                    /\ index' = idx1
                    /\ IF this_trial # None
                       THEN /\ yielded' = Append(yielded,
                                            Closed(this_trial, start))
                            /\ pc' = "yield"
                            /\ UNCHANGED <<this_trial, ret>>
                       ELSE /\ UNCHANGED yielded
                            /\ BeginTrial(id, idx1, onset, start)

\* lines 215-267: one row of the event log
ReadRow ==
    /\ pc = "rows" /\ nrows < MaxRows
    /\ nrows' = nrows + 1
    /\ \E time \in 0..MaxSample, message \in Messages :
        IF re_start(message) # None
        THEN StartEvent(time, re_start(message)[1])
        ELSE /\ stim' = IF re_stop(message) # None
                        THEN parse_stim_id(re_stop(message)[1]) ELSE stim
             /\ UNCHANGED <<pc, ret, click_idx, stim_on, trial_on, this_trial,
                            index, yielded, starts>>
    /\ UNCHANGED <<op, data_file, sync_dset, prepad, entry_num, entry_start,
                   expt_start, stim_onsets, stim_sample_offset, sampling_rate>>
    /\ UNCHANGED ppvars

\* the consumer asks for the next trial: the generator goes on after its yield
Resume ==
    /\ pc = "yield"
    /\ BeginTrial(stim, index, stim_on, trial_on)
    /\ UNCHANGED <<op, data_file, sync_dset, prepad, entry_num, entry_start,
                   expt_start, stim_onsets, stim_sample_offset, sampling_rate,
                   nrows, stim, click_idx, stim_on, trial_on, index, yielded,
                   starts>>
    /\ UNCHANGED ppvars

\* line 215: the event log of the entry has no more rows
EndRows ==
    /\ pc = "rows"
    /\ pc' = "entries"
    /\ UNCHANGED <<op, ret>>
    /\ UNCHANGED oevars
    /\ UNCHANGED ppvars

\* line 180: no more entries, the generator is exhausted
Exhausted ==
    /\ pc = "entries" /\ entry_num + 1 = Len(data_file)
    /\ pc' = "done"
    /\ UNCHANGED <<op, ret>>
    /\ UNCHANGED oevars
    /\ UNCHANGED ppvars

NextOe ==
    \/ NextEntry
    \/ ReadRow
    \/ Resume
    \/ EndRows
    \/ Exhausted

SpecOe == InitOe /\ [][NextOe]_vars

---------------------------------------------------------------------------
(* Properties *)

DimensionMessage == "Trial dimensions of data do not match"

\* C1: coherencycpt with a signal of C channels against n trials raises the
\* dimension error and computes nothing when C # n and C # 1; it keeps the
\* signal as it is when C = n; it tiles the one channel to n when C = 1.
C1_DimensionCheck ==
    op = "coherencycpt" =>
        LET cols == IF sig.ndim = 1 THEN [r \in DOMAIN sig.v |-> <<sig.v[r]>>]
                    ELSE sig.v
            C == Len(cols[1])
            n == Len(tl)
            raised == pc = "error" /\ ret.msg = DimensionMessage
        IN  /\ (C # n /\ C # 1) =>
                /\ raised /\ ret.error = "ValueError"
                /\ J1 = <<>> /\ J = <<>> /\ fr = NoFrame /\ done = {}
            /\ (C = n \/ C = 1) => ~raised
            /\ C = n => S = cols
            /\ C = 1 =>
                /\ Len(S) = Len(cols)
                /\ \A r \in DOMAIN S :
                    /\ Len(S[r]) = n
                    /\ \A c \in 1..n : S[r][c] = cols[r][1]

C1_Witness ==
    /\ op = "coherencycpt" /\ pc = "error" /\ ret.msg = DimensionMessage
    /\ sig.ndim = 2 /\ Len(sig.v[1]) = 2 /\ Len(tl) = 1

GridMin == RMinOf(Range(fr.t))
GridMax == RMaxOf(Range(fr.t))
\* the positions of a trial's events that lie on the grid's closed interval
Inside(c) ==
    {i \in DOMAIN tl[c] : RLeq(GridMin, tl[c][i]) /\ RLeq(tl[c][i], GridMax)}

\* C2: for every processed trial c, Nsp[c] counts the positions of its events
\* within [min(t), max(t)], both ends included and repeats counted,
\* Msp[c] = Nsp[c] / len(t), and the retained events are those positions in
\* their original order.
C2_CountInRange ==
    /\ \A c \in done :
        /\ Nsp[c] = Cardinality(Inside(c))
        /\ Msp[c].n * Len(fr.t) = Nsp[c] * Msp[c].d
    /\ (op # "none" /\ done # {} /\ done = 1..Cardinality(done)) =>
        LET c == Cardinality(done)
            pos == SortedSeq(Inside(c))
        IN  ev = [j \in DOMAIN pos |-> tl[c][pos[j]]]

C2_Witness ==
    \E c \in done :
        /\ Len(tl[c]) = 2 /\ Nsp[c] = 2
        /\ tl[c][1] = tl[c][2] /\ tl[c][1] = GridMax

IsZeroColumn(col) == \A i \in DOMAIN col : \A k \in DOMAIN col[i] : col[i][k] = CZero

\* C3: a processed trial with no event on the grid has a column of zeros,
\* Nsp = 0 and Msp = 0, raises nothing, and leaves every other processed
\* trial with the column its own events give; mtspectrumpt of one such trial
\* returns S zero at every frequency and R equal to 0.
C3_EmptyTrial ==
    /\ \A c \in done : Inside(c) = {} =>
        /\ IsZeroColumn(J[c]) /\ Nsp[c] = 0 /\ Msp[c] = RZero
        /\ op # "coherencycpt" => pc # "error"
        /\ \A d \in done \ {c} : J[d] = TrialResult(tl[d], fr).J
    /\ (op = "mtspectrumpt" /\ pc = "done" /\ Len(tl) = 1 /\ Inside(1) = {}) =>
        /\ \A i \in DOMAIN ret.S.v :
            IF ret.S.ndim = 1 THEN ret.S.v[i] = CZero
            ELSE \A c \in DOMAIN ret.S.v[i] : ret.S.v[i][c] = CZero
        /\ IF ret.R.ndim = 0 THEN ret.R.v = RZero
           ELSE \A c \in DOMAIN ret.R.v : ret.R.v[c] = RZero

C3_Witness ==
    /\ op = "mtspectrumpt" /\ pc = "done"
    /\ Len(tl) = 1 /\ Len(tl[1]) > 0 /\ Nsp[1] = 0
    /\ Len(fr.f) > 1

\* C4: a call of the transformer with a frequency grid and an index set of
\* different sizes ends in the assertion error before any trial is
\* processed and returns no result.
C4_SizeMismatchFails ==
    (pc # "idle" /\ pc # "nfft" /\ Len(fr.f) # Len(fr.findx)) =>
        /\ pc = "error" /\ ret.error = "AssertionError"
        /\ done = {} /\ J = <<>> /\ Nsp = <<>> /\ Msp = <<>> /\ fr.H = <<>>

C4_Witness ==
    /\ op = "_mtfftpt" /\ pc = "error" /\ ret.error = "AssertionError"
    /\ Len(fr.f) < Len(fr.findx)

RECURSIVE SumInts(_)
SumInts(q) == IF q = <<>> THEN 0 ELSE Head(q) + SumInts(Tail(q))

\* the mean over trials of Msp, times Fs: Fs * sum(Nsp) / (C * len(t))
MeanRate == Rat(kw.Fs * SumInts(Nsp), Len(tl) * Len(fr.t))

\* C5 as stated: mtspectrumpt returns the one rate mean(Msp) * Fs whatever
\* trialave is.
C5_RateAlwaysMean ==
    (op = "mtspectrumpt" /\ pc = "done") => ret.R = Scalar(MeanRate)

\* C5: mtspectrumpt returns R = mean(Msp) * Fs, one number, when trialave is
\* set, and the rate of each trial, Msp[c] * Fs, when it is not.
C5_Rate ==
    (op = "mtspectrumpt" /\ pc = "done") =>
        IF kw.trialave THEN ret.R = Scalar(MeanRate)
        ELSE /\ ret.R.ndim = 1 /\ Len(ret.R.v) = Len(tl)
             /\ \A c \in 1..Len(tl) :
                    ret.R.v[c] = Rat(kw.Fs * Nsp[c], Len(fr.t))

C5_Witness ==
    /\ op = "mtspectrumpt" /\ pc = "done" /\ ~kw.trialave
    /\ Len(tl) = 2 /\ Nsp[1] # Nsp[2] /\ kw.Fs = 2

\* the spectra of each trial, from the two transforms: mean over tapers
Cross12 == TaperCross(J1, J)
Auto1 == TaperCross(J1, J1)
Auto2 == TaperCross(J, J)
TrialMean(P, i) == CScale(Rat(1, Len(tl)), CSumSeq(P[i]))

\* C6: with trialave, coherencycpt averages S12, S1 and S2 over the trials
\* and forms C12 = S12 / sqrt(S1 S2) once from the averages; without it,
\* C12 is formed for each trial from that trial's spectra.
C6_AverageBeforeDivide ==
    (op = "coherencycpt" /\ pc = "done") =>
        IF kw.trialave
        THEN /\ ret.C12 = Vector([i \in 1..Len(fr.f) |->
                    Quot(TrialMean(Cross12, i),
                         CMul(TrialMean(Auto1, i), TrialMean(Auto2, i)))])
             /\ ret.S12 = Vector([i \in 1..Len(fr.f) |-> TrialMean(Cross12, i)])
             /\ ret.S1 = Vector([i \in 1..Len(fr.f) |-> TrialMean(Auto1, i)])
             /\ ret.S2 = Vector([i \in 1..Len(fr.f) |-> TrialMean(Auto2, i)])
        ELSE ret.C12 = Squeeze([i \in 1..Len(fr.f) |-> [c \in 1..Len(tl) |->
                            Quot(Cross12[i][c], CMul(Auto1[i][c], Auto2[i][c]))]],
                        Len(fr.f), Len(tl))

C6_Witness ==
    /\ op = "coherencycpt" /\ pc = "done" /\ kw.trialave /\ Len(tl) = 2
    /\ \E i \in 1..Len(fr.f) :
        /\ Cross12[i][1] # Cross12[i][2]
        /\ Cross12[i][1] # CZero /\ Cross12[i][2] # CZero
        /\ Auto2[i][1] # Auto2[i][2]

\* the least power of two that is at least N
LeastPow2(N) == CHOOSE q \in 1..(2 * N) : IsPow2(q) /\ q >= N /\ q < 2 * N

\* C7: at both places the transform length is max(2^ceil(log2 N) 2^pad, N):
\* never below N, N itself for pad = -1, the least power of two >= N for
\* pad = 0, and that power times 2^k for pad = k > 0.
C7_TransformLength ==
    pout # <<>> =>
        LET N == pin.N
            pad == pin.pad
            n == pout.nfft
        IN  /\ n >= N
            /\ pad = -1 => n = N
            /\ pad = 0 => n = LeastPow2(N)
            /\ pad > 0 => n = LeastPow2(N) * Pow2(pad)
            /\ LET scaled == LeastPow2(N) * Pow2(pad + 1)
               IN  2 * n = IF scaled >= 2 * N THEN scaled ELSE 2 * N

C7_Witness ==
    /\ pout # <<>> /\ pout.site = "coherencycpt"
    /\ pin.pad = -1 /\ pin.N = 8 /\ pout.nfft = 8

\* C8 as stated: whatever form of tgrid coherencycpt (or mtfftpt) accepts,
\* the grid handed to the transformer has spacing 1/Fs and as many points as
\* the tapers have rows.
C8_GridUniform ==
    (op \in {"coherencycpt", "mtfftpt", "mtspectrumpt"} /\ fr.t # <<>>) =>
        /\ Len(fr.t) = Len(fr.tapers)
        /\ \A i \in 1..(Len(fr.t) - 1) :
            RSub(fr.t[i + 1], fr.t[i]) = Rat(1, kw.Fs)

ZeroArrays == Zeros(Len(tl), Len(fr.f), Len(fr.tapers[1]))
Sequential == SeqLoop(ZeroArrays, 1, tl, fr)

\* C9: in whatever order the trials are processed, a processed trial holds
\* in J, Nsp and Msp what the loop run in order gives it, which is a
\* function of its own events and the shared frame; an unprocessed trial
\* still holds its zeros; so the result returned is that of the loop in order.
C9_OrderIndependent ==
    (pc \in {"loop", "done"}) =>
        /\ \A c \in done :
            /\ J[c] = Sequential.J[c]
            /\ Nsp[c] = Sequential.Nsp[c]
            /\ Msp[c] = Sequential.Msp[c]
            /\ J[c] = TrialResult(tl[c], fr).J
        /\ \A c \in (1..Len(tl)) \ done :
            /\ J[c] = ZeroArrays.J[c]
            /\ Nsp[c] = 0
            /\ Msp[c] = RZero
        /\ pc = "done" =>
            /\ ret.J = Sequential.J
            /\ ret.Nsp = Sequential.Nsp
            /\ ret.Msp = Sequential.Msp

C9_Witness ==
    /\ pc = "loop" /\ Len(tl) = 2 /\ done = {2}
    /\ Nsp[2] > 0 /\ Len(tl[1]) > 0

\* the mean over tapers of |J|^2 for what mtfftpt returns on these inputs
ReducedFft ==
    LET r == mtfftpt(tl, kw)
    IN  [i \in DOMAIN r.f |-> [c \in DOMAIN r.J |->
            CMean([k \in DOMAIN r.J[c][i] |-> CAbsSq(r.J[c][i][k])])]]

\* C10 as stated: for either value of trialave, S of mtspectrumpt is the
\* mean over tapers of |J|^2 of mtfftpt's J, on the same frequency axis.
C10_RoundTripAnyAverage ==
    (op = "mtspectrumpt" /\ pc = "done") =>
        /\ ret.S = Matrix(ReducedFft)
        /\ ret.f = mtfftpt(tl, kw).f

\* C10: with trialave unset, S of mtspectrumpt is the mean over tapers of
\* |J|^2 of mtfftpt's J; with trialave set it is the mean over trials of
\* that; the frequency axis is mtfftpt's in both cases.
C10_RoundTrip ==
    (op = "mtspectrumpt" /\ pc = "done") =>
        /\ ret.f = mtfftpt(tl, kw).f
        /\ IF kw.trialave
           THEN ret.S = Vector([i \in DOMAIN ReducedFft |->
                            CScale(Rat(1, Len(tl)), CSumSeq(ReducedFft[i]))])
           ELSE ret.S = Matrix(ReducedFft)

C10_Witness ==
    /\ op = "mtspectrumpt" /\ pc = "done" /\ ~kw.trialave /\ Len(tl) = 2
    /\ \E i \in DOMAIN ret.S.v :
        /\ ret.S.v[i][1] # CZero
        /\ ret.S.v[i][1] # ret.S.v[i][2]

\* C11 as stated: when oeaudio_to_trials has gone through every entry, it
\* has yielded one trial for each start message it read, the last start
\* message of each entry included, in the order of the messages.
C11_TrialPerStart ==
    (op = "oeaudio_to_trials" /\ pc = "done") =>
        /\ Len(yielded) = Len(starts)
        /\ \A k \in 1..Len(yielded) :
            /\ yielded[k].stim = starts[k].stim
            /\ yielded[k].recording.entry = starts[k].entry

\* the last start event read, when it belongs to the entry at hand
LastStart == starts[Len(starts)]
StartRead ==
    /\ op = "oeaudio_to_trials" /\ starts # <<>>
    /\ LastStart.entry = entry_num

\* C12 as stated: with a sync track, for every start event the click index
\* looked up is a position of the detected-click array, no IndexError is
\* raised, and the onset becomes the first click at or after the
\* offset-corrected sample of the event.
C12_ClickIndexValid ==
    (StartRead /\ sync_dset # "None") =>
        LET on0 == LastStart.time - stim_sample_offset
        IN  /\ click_idx \in 0..(Len(stim_onsets) - 1)
            /\ ~(pc = "error" /\ ret.error = "IndexError")
            /\ stim_on = stim_onsets[click_idx + 1]
            /\ stim_on >= on0
            /\ \A i \in DOMAIN stim_onsets :
                stim_onsets[i] >= on0 => stim_on <= stim_onsets[i]

\* the start events that close a trial: those that follow a start event of
\* the same entry and whose trial start was computed
Closers ==
    SortedSeq({j \in 2..Len(starts) :
                /\ starts[j].entry = starts[j - 1].entry
                /\ starts[j].trial_on # None})

\* C13: the trials yielded carry the indices 0, 1, 2, ... in the order
\* yielded, across the entries; each has recording.start >= 0; a start event
\* whose trial start is negative is the last one read, ends in ValueError and
\* its trial is not yielded; and the yielded trials are, in order, those of
\* the start events followed by another start event of the same entry, each
\* with recording.stop equal to the trial start computed for that next event.
C13_TrialRecords ==
    (op = "oeaudio_to_trials") =>
        /\ \A k \in 1..Len(yielded) :
            /\ yielded[k].index = k - 1
            /\ yielded[k].recording.start >= 0
        /\ \A j \in 1..Len(starts) :
            (starts[j].trial_on # None /\ starts[j].trial_on[1] < 0) =>
                /\ j = Len(starts)
                /\ pc = "yield" \/ (pc = "error" /\ ret.error = "ValueError")
                /\ pc = "error" => ret.trial_on = starts[j].trial_on[1]
        /\ Len(yielded) = Len(Closers)
        /\ \A k \in 1..Len(yielded) :
            LET j == Closers[k]
            IN  /\ yielded[k].recording.stop = starts[j].trial_on[1]
                /\ yielded[k].recording.start = starts[j - 1].trial_on[1]
                /\ yielded[k].recording.entry = starts[j - 1].entry
                /\ yielded[k].stim = starts[j - 1].stim

C13_Witness ==
    /\ op = "oeaudio_to_trials" /\ pc = "done"
    /\ Len(starts) = 4 /\ Len(yielded) = 2
    /\ yielded[1].recording.entry = 0 /\ yielded[2].recording.entry = 1
    /\ yielded[2].index = 1
    /\ yielded[1].recording.stop > yielded[1].recording.start

\* the endpoints mtfftpt builds its grid from: the range of the events by
\* default, else the tgrid option
Endpoints == IF kw.tgrid = <<>> THEN TlRange(tl) ELSE kw.tgrid

\* C14: when mtfftpt builds its grid from a pair (start, end), the grid
\* starts at start - 1/Fs, its points are 1/Fs apart and its last point is
\* >= end; with the default range every event of every processed trial is
\* kept, so Nsp[c] is the length of trial c.
C14_EndpointGrid ==
    (op \in {"mtfftpt", "mtspectrumpt"} /\ pc # "idle" /\ Len(Endpoints) = 2) =>
        LET dt == Rat(1, kw.Fs)
        IN  /\ fr.t # <<>>
            /\ fr.t[1] = RSub(Endpoints[1], dt)
            /\ \A i \in 1..(Len(fr.t) - 1) : RSub(fr.t[i + 1], fr.t[i]) = dt
            /\ RLeq(Endpoints[2], fr.t[Len(fr.t)])
            /\ kw.tgrid = <<>> =>
                \A c \in done :
                    /\ Nsp[c] = Len(tl[c])
                    /\ \A i \in DOMAIN tl[c] : RLeq(tl[c][i], fr.t[Len(fr.t)])

C14_Witness ==
    /\ op = "mtfftpt" /\ pc = "done" /\ kw.tgrid = <<>> /\ kw.Fs = 2
    /\ Len(tl) = 2 /\ Len(tl[1]) = 1 /\ Len(tl[2]) = 1
    /\ RSub(tl[1][1], tl[2][1]) = Rat(1, 2)
    /\ Nsp[1] = 1 /\ Nsp[2] = 1

====
